---- MODULE Spec2Model ----
(***************************************************************************)
(* Range analysis of a tensor graph (qonnx/util/range_analysis.py).        *)
(*                                                                         *)
(* Numbers are exact dyadic rationals <<n, e>> = n / 2^e, which is what    *)
(* the float arithmetic of the source computes on the small values used.   *)
(* A value is a Python scalar, a 2-D array, or None; a failing call is     *)
(* the value Err.                                                          *)
(***************************************************************************)
EXTENDS Integers, Sequences, FiniteSets, TLC

\* ------------------------------------------------------------ bounds
\* longest node list of a graph
MaxNodes == 2
\* entries of the matrices of the matmul specification lie in -MaxVal..MaxVal
MaxVal == 1

\* ------------------------------------------------------------ numbers
RECURSIVE Pow2(_)
Pow2(k) == IF k = 0 THEN 1 ELSE 2 * Pow2(k - 1)

RECURSIVE Norm(_)
Norm(a) == IF a[2] > 0 /\ a[1] % 2 = 0 THEN Norm(<<a[1] \div 2, a[2] - 1>>) ELSE a

D(n) == <<n, 0>>
Zero == D(0)
One == D(1)
MaxOf(i, j) == IF i >= j THEN i ELSE j
Num(a, e) == a[1] * Pow2(e - a[2])
DAdd(a, b) == LET e == MaxOf(a[2], b[2]) IN Norm(<<Num(a, e) + Num(b, e), e>>)
DSub(a, b) == LET e == MaxOf(a[2], b[2]) IN Norm(<<Num(a, e) - Num(b, e), e>>)
DMul(a, b) == Norm(<<a[1] * b[1], a[2] + b[2]>>)
DHalf(a) == Norm(<<a[1], a[2] + 1>>)
DLe(a, b) == LET e == MaxOf(a[2], b[2]) IN Num(a, e) <= Num(b, e)
DAbs(a) == IF a[1] < 0 THEN <<0 - a[1], a[2]>> ELSE a
DMin(a, b) == IF DLe(a, b) THEN a ELSE b
DMax(a, b) == IF DLe(a, b) THEN b ELSE a
\* x % 1 == 0
IsIntegral(a) == Norm(a)[2] = 0

\* ------------------------------------------------------------ values
NoneV == [k |-> "none"]
Err == [k |-> "error"]
Sc(n) == [k |-> "scalar", v |-> n]
\* the tuple <<f[1], ..., f[n]>>: the values of f, each computed once
RECURSIVE Tup(_, _)
Tup(f, n) == IF n = 0 THEN <<>> ELSE Append(Tup(f, n - 1), f[n])
Arr(m) == [k |-> "array", m |-> m]
\* np.asarray([c]): a one-element vector
Vec1(n) == [k |-> "vector", m |-> <<n>>]
IsArr(a) == a.k = "array"
IsSc(a) == a.k = "scalar"
IsNum(a) == a.k \in {"scalar", "array"}
Rows(a) == IF IsArr(a) THEN Len(a.m) ELSE 1
Cols(a) == IF IsArr(a) THEN Len(a.m[1]) ELSE 1
ShapeOf(a) == <<Rows(a), Cols(a)>>
\* element (i, j) of a value under numpy broadcasting
At(a, i, j) ==
    IF IsSc(a) THEN a.v
    ELSE a.m[IF Len(a.m) = 1 THEN 1 ELSE i][IF Len(a.m[1]) = 1 THEN 1 ELSE j]
BroadcastOk(a, b) ==
    /\ IsNum(a) /\ IsNum(b)
    /\ (Rows(a) = Rows(b) \/ Rows(a) = 1 \/ Rows(b) = 1)
    /\ (Cols(a) = Cols(b) \/ Cols(a) = 1 \/ Cols(b) = 1)
ApplyBin(op, p, q) ==
    CASE op = "Add" -> DAdd(p, q)
      [] op = "Sub" -> DSub(p, q)
      [] op = "Mul" -> DMul(p, q)
      [] op = "Min" -> DMin(p, q)
      [] op = "Max" -> DMax(p, q)
\* elementwise binary operation of numpy, with broadcasting
BinArr(op, a, b, R, C) ==
    Arr(Tup([i \in 1..R |-> Tup([j \in 1..C |-> ApplyBin(op, At(a, i, j), At(b, i, j))], C)],
            R))
Bin(op, a, b) ==
    IF ~BroadcastOk(a, b) THEN Err
    ELSE IF IsSc(a) /\ IsSc(b) THEN Sc(ApplyBin(op, a.v, b.v))
    ELSE BinArr(op, a, b, MaxOf(Rows(a), Rows(b)), MaxOf(Cols(a), Cols(b)))
ApplyUn(op, p) ==
    CASE op = "Abs" -> DAbs(p)
      [] op = "Half" -> DHalf(p)
      [] op = "Relu" -> DMax(p, Zero)
      [] op = "Id" -> p
Un(op, a) ==
    IF ~IsNum(a) THEN Err
    ELSE IF IsSc(a) THEN Sc(ApplyUn(op, a.v))
    ELSE Arr(Tup([i \in 1..Rows(a) |->
                    Tup([j \in 1..Cols(a) |-> ApplyUn(op, a.m[i][j])], Cols(a))], Rows(a)))
RECURSIVE SumTo(_, _)
SumTo(f, n) == IF n = 0 THEN Zero ELSE DAdd(SumTo(f, n - 1), f[n])
\* np.matmul: both operands need two dimensions here, and the inner ones must agree
MatMul(a, b) ==
    IF ~(IsArr(a) /\ IsArr(b)) THEN Err
    ELSE IF Cols(a) # Rows(b) THEN Err
    ELSE Arr(Tup([i \in 1..Rows(a) |->
                    Tup([j \in 1..Cols(b) |->
                            SumTo([l \in 1..Cols(a) |-> DMul(a.m[i][l], b.m[l][j])], Cols(a))],
                        Cols(b))],
                 Rows(a)))
ZerosOf(shape) ==
    Arr(Tup([i \in 1..shape[1] |-> Tup([j \in 1..shape[2] |-> Zero], shape[2])], shape[1]))
\* every element of a is <= the matching element of b
AllLe(a, b) ==
    /\ BroadcastOk(a, b)
    /\ \A i \in 1..MaxOf(Rows(a), Rows(b)) : \A j \in 1..MaxOf(Cols(a), Cols(b)) :
          DLe(At(a, i, j), At(b, i, j))
AllIntegral(a) == \A i \in 1..Rows(a) : \A j \in 1..Cols(a) : IsIntegral(At(a, i, j))

\* ------------------------------------------------------------ the model (graph) under analysis
\* Tensors of the graphs analysed: graph inputs inA (INT2), inB (UINT2), inC (no
\* datatype annotation); initializers wI (integral), wH (not integral), wM;
\* the other names are node outputs.
InputNames == {"inA", "inB", "inC"}
InitNames == <<"wI", "wH", "wM">>
H(n) == <<n, 1>>
\* model.get_initializer
get_initializer(x) ==
    CASE x = "wI" -> Arr(<< <<D(1), D(0 - 1)>> >>)
      [] x = "wH" -> Arr(<< <<H(1), H(3)>> >>)
      [] x = "wM" -> Arr(<< <<D(1)>>, <<D(0 - 1)>> >>)
      [] OTHER -> NoneV
\* the declared shape of model.get_tensor_valueinfo
get_tensor_shape(x) ==
    CASE x = "wM" -> <<2, 1>>
      [] x \in {"m1", "m2", "sp1", "sp2"} -> <<1, 1>>
      [] OTHER -> <<1, 2>>
\* model.get_tensor_datatype, and DataType.min() / DataType.max()
get_tensor_datatype(x) ==
    CASE x \in {"inA", "n1"} -> "INT2"
      [] x = "inB" -> "UINT2"
      [] OTHER -> "NONE"
DtMin(dt) == IF dt = "INT2" THEN D(0 - 2) ELSE D(0)
DtMax(dt) == IF dt = "INT2" THEN D(1) ELSE D(3)
\* valueinfo_to_tensor
valueinfo_to_tensor(x) == ZerosOf(get_tensor_shape(x))

Node(n, op, inp, out) == [name |-> n, op_type |-> op, input |-> inp, output |-> out]
NodePool == <<
    Node("relu", "Relu", <<"inA">>, <<"r1">>),
    Node("mul2", "Mul", <<"inA", "inB">>, <<"s1">>),
    Node("square", "Mul", <<"inA", "inA">>, <<"q1">>),
    Node("mm", "MatMul", <<"r1", "wM">>, <<"m1">>),
    Node("mmin", "MatMul", <<"inA", "wM">>, <<"m2">>),
    Node("foo", "Foo", <<"inA">>, <<"u1">>),
    Node("subu", "Sub", <<"u1", "wH">>, <<"v1">>),
    Node("qmn", "QuantMaxNorm", <<"inA">>, <<"n1">>),
    Node("qmn2", "QuantMaxNorm", <<"inB">>, <<"n2">>),
    Node("cint", "Add", <<"wI", "wI">>, <<"c1">>),
    Node("chalf", "Add", <<"wI", "wH">>, <<"c2">>),
    Node("split", "Split", <<"s1">>, <<"sp1", "sp2">>),
    Node("relu2", "Relu", <<"inB">>, <<"u1">>),
    Node("clip", "Clip", <<"inB", "", "">>, <<"k1">>) >>
Graphs == UNION {[1..n -> 1..Len(NodePool)] : n \in 1..MaxNodes}
\* graph.input lists
InputLists == {<<"inA">>, <<"inA", "inB">>, <<"inA", "inC">>, <<"inC", "inA">>}

\* the characters of a tensor name
Chars(x) ==
    CASE x = "inA" -> <<"i", "n", "A">>
      [] x = "inB" -> <<"i", "n", "B">>
      [] x = "inC" -> <<"i", "n", "C">>
      [] x = "wI" -> <<"w", "I">>
      [] x = "wH" -> <<"w", "H">>
      [] x = "wM" -> <<"w", "M">>
      [] x = "r1" -> <<"r", "1">>
      [] x = "s1" -> <<"s", "1">>
      [] x = "q1" -> <<"q", "1">>
      [] x = "m1" -> <<"m", "1">>
      [] x = "m2" -> <<"m", "2">>
      [] x = "u1" -> <<"u", "1">>
      [] x = "v1" -> <<"v", "1">>
      [] x = "n1" -> <<"n", "1">>
      [] x = "n2" -> <<"n", "2">>
      [] x = "c1" -> <<"c", "1">>
      [] x = "c2" -> <<"c", "2">>
      [] x = "sp1" -> <<"s", "p", "1">>
      [] x = "sp2" -> <<"s", "p", "2">>
      [] x = "k1" -> <<"k", "1">>
      [] OTHER -> <<>>
\* Python's  sub in s  on strings
Contains(sub, s) ==
    \E i \in 0..(Len(s) - Len(sub)) : SubSeq(s, i + 1, i + Len(sub)) = sub
KeyFilters == {<<>>, <<"i", "n">>, <<"1">>}

\* ------------------------------------------------------------ RangeInfo
Pair(lo, hi) == [k |-> "pair", min |-> lo, max |-> hi]
\* the pair, unless computing a bound raised
PairOrErr(lo, hi) == IF lo.k = "error" \/ hi.k = "error" THEN Err ELSE Pair(lo, hi)
RangeInfo(r, init) ==
    [range |-> r, int_range |-> NoneV, scale |-> NoneV, bias |-> NoneV,
     is_initializer |-> init]
has_integer_info(ri) ==
    ri.int_range.k # "none" /\ ri.scale.k # "none" /\ ri.bias.k # "none"

is_dyn_input(x) == get_initializer(x).k = "none" /\ x # ""

promote_range_shape(tensor_range, x) ==
    IF tensor_range.k # "pair" THEN Err
    ELSE IF IsArr(tensor_range.min) /\ ShapeOf(tensor_range.min) = get_tensor_shape(x)
         THEN tensor_range
    ELSE PairOrErr(Bin("Add", tensor_range.min, valueinfo_to_tensor(x)),
                   Bin("Add", tensor_range.max, valueinfo_to_tensor(x)))

\* ------------------------------------------------------------ the range table
\* range_dict maps a tensor name to a reference; heap maps a reference to the
\* RangeInfo object it denotes, so that two names may share one object.
Alloc(hp, ri) == Append(hp, ri)
NewRef(hp) == Len(hp) + 1
Bind(rd, x, ref) == (x :> ref) @@ rd
EmptyDict == [n \in {} |-> 0]
RangeOf(rd, hp, x) == hp[rd[x]].range
\* range_dict[name].range = r, for each name of names in turn
RECURSIVE SetRanges(_, _, _, _, _)
SetRanges(hp, rd, names, rs, i) ==
    IF i > Len(names) THEN hp
    ELSE SetRanges([hp EXCEPT ![rd[names[i]]].range = rs[i]], rd, names, rs, i + 1)

\* range_dict[name].is_initializer = True, for each name of names in turn
RECURSIVE SetInitializer(_, _, _, _)
SetInitializer(hp, rd, names, i) ==
    IF i > Len(names) THEN hp
    ELSE SetInitializer([hp EXCEPT ![rd[names[i]]].is_initializer = TRUE], rd, names, i + 1)

\* ------------------------------------------------------------ single-node execution
\* execute_node: the values of the node's outputs for the input values of ctx.
\* strict: the executor rejects an input that is a bare scalar, not an array.
execute_node(node, ctx, strict) ==
    LET in1 == ctx[node.input[1]]
        op == node.op_type
    IN  IF strict /\ \E i \in 1..Len(node.input) : ctx[node.input[i]].k = "scalar"
        THEN <<Err>>
        ELSE CASE op = "Relu" -> <<Un("Relu", in1)>>
               [] op = "Clip" -> <<Un("Id", in1)>>
               [] op \in {"Add", "Sub", "Mul"} -> <<Bin(op, in1, ctx[node.input[2]])>>
               [] op = "Split" ->
                    IF IsArr(in1) /\ Cols(in1) = 2
                    THEN <<Arr(Tup([i \in 1..Rows(in1) |-> <<in1.m[i][1]>>], Rows(in1))),
                           Arr(Tup([i \in 1..Rows(in1) |-> <<in1.m[i][2]>>], Rows(in1)))>>
                    ELSE <<Err, Err>>
               [] OTHER -> Tup([i \in 1..Len(node.output) |-> Err], Len(node.output))
AnyErr(vals) == \E i \in 1..Len(vals) : vals[i].k = "error"

\* ------------------------------------------------------------ calc_monotonic_range
dyn_inps_of(node) == SelectSeq(node.input, is_dyn_input)
init_ctx(node) ==
    [x \in {node.input[i] : i \in 1..Len(node.input)}
           \cup {node.output[i] : i \in 1..Len(node.output)} |->
        IF \E i \in 1..Len(node.input) : node.input[i] = x
        THEN get_initializer(x) ELSE valueinfo_to_tensor(x)]
\* itertools.product(*proto_vectors): combination c (from 0), the rightmost input
\* varying fastest; entry i is the bound picked for dynamic input i
Corner(protos, c) ==
    Tup([i \in 1..Len(protos) |->
           IF (c \div Pow2(Len(protos) - i)) % 2 = 0 THEN protos[i].min ELSE protos[i].max],
        Len(protos))
\* for i in range(n_dyn_inp): ctx[dyn_inps[i]] = inps[i]   (a later entry of the
\* same name overwrites an earlier one)
corner_ctx(dyn, ctx, inps) ==
    [x \in DOMAIN ctx |->
        IF \E i \in 1..Len(dyn) : dyn[i] = x
        THEN inps[CHOOSE i \in 1..Len(dyn) :
                    dyn[i] = x /\ \A j \in (i + 1)..Len(dyn) : dyn[j] # x]
        ELSE ctx[x]]
\* the context of each execute_node call of lines 136-139, in the order of the calls
corner_ctxs(node, protos) ==
    Tup([c \in 1..Pow2(Len(protos)) |->
           corner_ctx(dyn_inps_of(node), init_ctx(node), Corner(protos, c - 1))],
        Pow2(Len(protos)))
\* the inputs a call of execute_node reads from its context
ctx_inputs(node, ctx) == [x \in {node.input[i] : i \in 1..Len(node.input)} |-> ctx[x]]
\* the outputs of the node at each of these calls
corner_outs(node, ctxs, strict) ==
    Tup([c \in 1..Len(ctxs) |-> execute_node(node, ctxs[c], strict)], Len(ctxs))
\* lines 143-144 keeping only the latest output
running_latest(op, outs, oind, n) == outs[n][oind]
\* running_min / running_max of output oind after the first n combinations
RECURSIVE running(_, _, _, _)
running(op, outs, oind, n) ==
    IF n = 1 THEN outs[1][oind]
    ELSE Bin(op, outs[n][oind], running(op, outs, oind, n - 1))
\* the result of a range calculation: whether it raised, the heap it leaves, and
\* the inputs of each execute_node call it made
CalcResult(e, hp, ev) == [err |-> e, heap |-> hp, evals |-> ev]
\* lines 117-125: all inputs are constants; out are the outputs of the one evaluation
monotonic_constant(node, rd, hp, out) ==
    IF AnyErr(out) THEN CalcResult(TRUE, hp, <<>>)
    ELSE CalcResult(FALSE,
           SetInitializer(
             SetRanges(hp, rd, node.output,
                       Tup([o \in 1..Len(node.output) |-> Pair(out[o], out[o])],
                           Len(node.output)), 1),
             rd, node.output, 1),
           <<ctx_inputs(node, init_ctx(node))>>)
\* lines 134-146: outs are the outputs of the calls with contexts ctxs
monotonic_minmax(node, rd, hp, ctxs, outs) ==
    IF \E c \in 1..Len(outs) : AnyErr(outs[c]) THEN CalcResult(TRUE, hp, <<>>)
    ELSE CalcResult(FALSE,
           SetRanges(hp, rd, node.output,
                     Tup([o \in 1..Len(node.output) |->
                            Pair(running("Min", outs, o, Len(outs)),
                                 running("Max", outs, o, Len(outs)))],
                         Len(node.output)), 1),
           Tup([c \in 1..Len(ctxs) |-> ctx_inputs(node, ctxs[c])], Len(ctxs)))
monotonic_evaluated(node, rd, hp, strict, ctxs) ==
    monotonic_minmax(node, rd, hp, ctxs, corner_outs(node, ctxs, strict))
\* lines 136-139, for the proto vectors of the dynamic inputs
monotonic_corners(node, rd, hp, strict, protos) ==
    IF \E i \in 1..Len(protos) : protos[i].k = "error" THEN CalcResult(TRUE, hp, <<>>)
    ELSE monotonic_evaluated(node, rd, hp, strict, corner_ctxs(node, protos))
\* lines 128-132
proto_vectors(dyn, rd, hp) ==
    Tup([i \in 1..Len(dyn) |-> promote_range_shape(RangeOf(rd, hp, dyn[i]), dyn[i])],
        Len(dyn))
calc_monotonic_range(node, rd, hp, strict) ==
    IF Len(dyn_inps_of(node)) = 0
    THEN monotonic_constant(node, rd, hp, execute_node(node, init_ctx(node), FALSE))
    ELSE monotonic_corners(node, rd, hp, strict, proto_vectors(dyn_inps_of(node), rd, hp))

\* ------------------------------------------------------------ calc_matmul_range
\* radius = midpoint - matrix_min
midpoint_radius(matrix_min, midpoint) == <<midpoint, Bin("Sub", midpoint, matrix_min)>>
\* (midpoint, radius) of a range, as <<midpoint, radius>>
range_to_midpoint_radius(matrix_range) ==
    midpoint_radius(matrix_range.min,
                    Bin("Add", matrix_range.min,
                        Un("Half", Bin("Sub", matrix_range.max, matrix_range.min))))
\* line 165 without its second term
matmul_radius_first_term(mA, rA, mB, rB) ==
    MatMul(rA, Bin("Add", Un("Abs", mB), rB))
\* line 165
matmul_radius(mA, rA, mB, rB) ==
    Bin("Add", MatMul(rA, Bin("Add", Un("Abs", mB), rB)), MatMul(Un("Abs", mA), rB))
\* lines 167-169 with the signs of the radius exchanged
matmul_out_swapped(out_base, radius) ==
    PairOrErr(Bin("Add", out_base, radius), Bin("Sub", out_base, radius))
\* lines 167-169
matmul_out(out_base, radius) ==
    PairOrErr(Bin("Sub", out_base, radius), Bin("Add", out_base, radius))
\* lines 165-166, for A = (midpoint_A, radius_A) and B = (midpoint_B, radius_B)
matmul_enclosure(A, B) ==
    matmul_out(MatMul(A[1], B[1]), matmul_radius(A[1], A[2], B[1], B[2]))
calc_matmul_range(range_A, range_B) ==
    IF range_A.k # "pair" \/ range_B.k # "pair" THEN Err
    ELSE matmul_enclosure(range_to_midpoint_radius(range_A), range_to_midpoint_radius(range_B))
\* line 175 assigning to the record of the first input
matmul_assign_input(node, rd, hp, r) ==
    IF r.k = "error" THEN CalcResult(TRUE, hp, <<>>)
    ELSE CalcResult(FALSE, [hp EXCEPT ![rd[node.input[1]]].range = r], <<>>)
\* line 175
matmul_assign(node, rd, hp, r) ==
    IF r.k = "error" THEN CalcResult(TRUE, hp, <<>>)
    ELSE CalcResult(FALSE, [hp EXCEPT ![rd[node.output[1]]].range = r], <<>>)
calc_matmul_node_range(node, rd, hp) ==
    IF ~(node.input[1] \in DOMAIN rd /\ node.input[2] \in DOMAIN rd)
    THEN CalcResult(TRUE, hp, <<>>)
    ELSE matmul_assign(node, rd, hp,
                       calc_matmul_range(RangeOf(rd, hp, node.input[1]),
                                         RangeOf(rd, hp, node.input[2])))

\* ------------------------------------------------------------ calc_range_outdtype
calc_range_outdtype(node, rd, hp) ==
    LET oname == node.output[1]
        odt == get_tensor_datatype(oname)
    IN  IF odt = "NONE" THEN CalcResult(TRUE, hp, <<>>)
        ELSE CalcResult(FALSE,
               [hp EXCEPT ![rd[oname]].range = Pair(Sc(DtMin(odt)), Sc(DtMax(odt)))], <<>>)

\* ------------------------------------------------------------ calc_range_all_initializers
\* the record made for a tensor with initializer tensor_init
initializer_info(tensor_init) ==
    LET ri == RangeInfo(Pair(tensor_init, tensor_init), TRUE)
    IN  IF AllIntegral(tensor_init)
        THEN [ri EXCEPT !.int_range = Pair(tensor_init, tensor_init),
                        !.scale = Vec1(One), !.bias = Vec1(Zero)]
        ELSE ri
\* model.get_all_tensor_names: the graph inputs and every tensor a node names
get_all_tensor_names(g, inps) ==
    {inps[i] : i \in 1..Len(inps)}
      \cup UNION {{NodePool[g[n]].input[i] : i \in 1..Len(NodePool[g[n]].input)}
                    \cup {NodePool[g[n]].output[i] : i \in 1..Len(NodePool[g[n]].output)}
                  : n \in 1..Len(g)}
\* st = <<range_dict, heap>> after the tensors names[i..] have been visited
RECURSIVE calc_range_all_initializers(_, _, _)
calc_range_all_initializers(names, i, st) ==
    IF i > Len(names) THEN st
    ELSE LET tensor_init == get_initializer(names[i])
         IN  calc_range_all_initializers(names, i + 1,
               IF tensor_init.k # "none"
               THEN <<Bind(st[1], names[i], NewRef(st[2])),
                      Alloc(st[2], initializer_info(tensor_init))>>
               ELSE st)

\* ------------------------------------------------------------ dispatch table
MonotonicOps ==
    {"Transpose", "Flatten", "Reshape", "Quant", "BipolarQuant", "Mul", "Sub", "Div",
     "Add", "BatchNormalization", "Relu", "Pad", "AveragePool", "Trunc", "MaxPool",
     "Resize", "Upsample", "GlobalAveragePool", "QuantizeLinear", "DequantizeLinear",
     "Clip", "Sigmoid", "Concat", "Split", "Im2Col"}
optype_to_range_calc == MonotonicOps \cup {"MatMul", "QuantMaxNorm"}
range_calc_fxn(node, rd, hp, strict) ==
    CASE node.op_type = "MatMul" -> calc_matmul_node_range(node, rd, hp)
      [] node.op_type = "QuantMaxNorm" -> calc_range_outdtype(node, rd, hp)
      [] OTHER -> calc_monotonic_range(node, rd, hp, strict)

REPORT_MODE_RANGE == "range"
REPORT_MODE_STUCKCHANNEL == "stuck_channel"
REPORT_MODE_ZEROSTUCKCHANNEL == "zerostuck_channel"
report_modes == {REPORT_MODE_RANGE, REPORT_MODE_STUCKCHANNEL, REPORT_MODE_ZEROSTUCKCHANNEL}

\* ------------------------------------------------------------ state
VARIABLES
    graph,        \* model.graph.node, as indices into NodePool
    ginputs,      \* the names of model.graph.input
    irange,       \* the irange argument
    range_min,    \* locals of range_analysis
    range_max,
    range_dict,   \* tensor name -> reference of its RangeInfo
    heap,         \* reference -> RangeInfo object
    stuck_chans,  \* tensor name -> set of <<channel, value>>
    i_inp,        \* position of the loop over model.graph.input
    i_node,       \* position of the loop over model.graph.node
    pc,           \* "seed", "walk", "done", "aborted"; "matmul", "applied"
    abort_msg,    \* why the run aborted
    warnings,     \* the warnings issued, one per skipped node
    evals,        \* inputs of the execute_node calls of the last range calculation
    ret,          \* what range_analysis returned, with the arguments that shaped it
    fin,          \* the arguments of a direct call of calc_matmul_range
    fout          \* and its result

vars == <<graph, ginputs, irange, range_min, range_max, range_dict, heap, stuck_chans,
          i_inp, i_node, pc, abort_msg, warnings, evals, ret, fin, fout>>

IRange(kind, lo, hi) == [kind |-> kind, min |-> lo, max |-> hi]
\* the irange arguments tried: "", a (min, max) tuple of scalars, a tuple whose
\* minimum is an array, and a RangeInfo with and without a range
IRanges ==
    {IRange("empty", NoneV, NoneV),
     IRange("tuple", Sc(D(0 - 1)), Sc(D(1))),
     IRange("tuple", Arr(<< <<D(0), D(0 - 1)>> >>), Sc(D(1))),
     IRange("RangeInfo", Sc(D(0 - 1)), Sc(D(1))),
     IRange("RangeInfo", NoneV, NoneV)}
NoReturn ==
    [report_mode |-> "", key_filter |-> <<>>, strip |-> FALSE, report |-> EmptyDict]

\* the state of range_analysis once its arguments are resolved (line 294)
Init ==
    /\ graph \in Graphs
    /\ ginputs \in InputLists
    /\ irange \in IRanges
    /\ range_min = (IF irange.kind = "tuple" THEN irange.min ELSE NoneV)
    /\ range_max = (IF irange.kind = "tuple" THEN irange.max ELSE NoneV)
    /\ range_dict = EmptyDict
    /\ heap = (IF irange.kind = "RangeInfo"
               THEN <<RangeInfo(IF irange.min.k = "none" THEN NoneV
                                ELSE Pair(irange.min, irange.max), FALSE)>>
               ELSE <<>>)
    /\ stuck_chans = EmptyDict
    /\ i_inp = 1
    /\ i_node = 1
    /\ pc = "seed"
    /\ abort_msg = ""
    /\ warnings = <<>>
    /\ evals = <<>>
    /\ ret = NoReturn
    /\ fin = NoneV
    /\ fout = NoneV

\* ------------------------------------------------------------ range_analysis
\* one iteration of  for inp in model.graph.input  (lines 297-308)
seed_input(iname, given, rmin, rmax, rd, hp) ==
    IF given.kind = "RangeInfo"
    THEN [err |-> FALSE, range_min |-> rmin, range_max |-> rmax,
          range_dict |-> Bind(rd, iname, 1), heap |-> hp]
    ELSE IF rmin.k = "none" \/ rmax.k = "none"
    THEN LET idt == get_tensor_datatype(iname)
         IN  IF idt = "NONE"
             THEN [err |-> TRUE, range_min |-> rmin, range_max |-> rmax,
                   range_dict |-> rd, heap |-> hp]
             ELSE [err |-> FALSE, range_min |-> Sc(DtMin(idt)), range_max |-> Sc(DtMax(idt)),
                   range_dict |-> Bind(rd, iname, NewRef(hp)),
                   heap |-> Alloc(hp, RangeInfo(Pair(Sc(DtMin(idt)), Sc(DtMax(idt))), FALSE))]
    ELSE [err |-> FALSE, range_min |-> rmin, range_max |-> rmax,
          range_dict |-> Bind(rd, iname, NewRef(hp)),
          heap |-> Alloc(hp, RangeInfo(Pair(rmin, rmax), FALSE))]

SeedInput ==
    /\ pc = "seed"
    /\ i_inp <= Len(ginputs)
    /\ \E r \in {seed_input(ginputs[i_inp], irange, range_min, range_max, range_dict, heap)} :
           /\ range_min' = r.range_min
           /\ range_max' = r.range_max
           /\ range_dict' = r.range_dict
           /\ heap' = r.heap
           /\ pc' = (IF r.err THEN "aborted" ELSE pc)
           /\ abort_msg' = (IF r.err THEN "Could not infer irange, please specify" ELSE abort_msg)
    /\ i_inp' = i_inp + 1
    /\ UNCHANGED <<graph, ginputs, irange, stuck_chans, i_node, warnings, evals, ret, fin, fout>>

\* calc_range_all_initializers(model, range_dict)  (line 311)
SeedInitializers ==
    /\ pc = "seed"
    /\ i_inp > Len(ginputs)
    /\ \E st \in {calc_range_all_initializers(
                       SelectSeq(InitNames,
                                 LAMBDA x : x \in get_all_tensor_names(graph, ginputs)),
                       1, <<range_dict, heap>>)} :
           /\ range_dict' = st[1]
           /\ heap' = st[2]
    /\ pc' = "walk"
    /\ UNCHANGED <<graph, ginputs, irange, range_min, range_max, stuck_chans, i_inp, i_node,
                   abort_msg, warnings, evals, ret, fin, fout>>

\* for node_out in node.output: range_dict[node_out] = RangeInfo()  (lines 322-323)
RECURSIVE fresh_outputs(_, _, _)
fresh_outputs(names, i, st) ==
    IF i > Len(names) THEN st
    ELSE fresh_outputs(names, i + 1,
           <<Bind(st[1], names[i], NewRef(st[2])), Alloc(st[2], RangeInfo(NoneV, FALSE))>>)
\* for node_out in node.output: promote the range of node_out  (lines 327-329);
\* Err when promote_range_shape raises
RECURSIVE promote_outputs(_, _, _, _)
promote_next(names, i, rd, hp, r) ==
    IF r.k = "error" THEN Err
    ELSE promote_outputs(names, i + 1, rd, [hp EXCEPT ![rd[names[i]]].range = r])
promote_outputs(names, i, rd, hp) ==
    IF i > Len(names) THEN [k |-> "ok", heap |-> hp]
    ELSE promote_next(names, i, rd, hp,
                      promote_range_shape(RangeOf(rd, hp, names[i]), names[i]))
inprange_ok(node, rd) ==
    \A i \in 1..Len(node.input) : is_dyn_input(node.input[i]) => node.input[i] \in DOMAIN rd
op_ok(node) == node.op_type \in optype_to_range_calc
WalkResult(skipped, e, rd, hp, ev) ==
    [skipped |-> skipped, err |-> e, range_dict |-> rd, heap |-> hp, evals |-> ev]
\* lines 327-329, after the range calculation left res
walk_promoted(st, res, promoted) ==
    IF promoted.k = "error" THEN WalkResult(FALSE, TRUE, st[1], res.heap, res.evals)
    ELSE WalkResult(FALSE, FALSE, st[1], promoted.heap, res.evals)
\* lines 324-329, with the outputs' fresh records in st = <<range_dict, heap>>
walk_calculated(node, st, res) ==
    IF res.err THEN WalkResult(FALSE, TRUE, st[1], st[2], <<>>)
    ELSE walk_promoted(st, res, promote_outputs(node.output, 1, st[1], res.heap))
walk_supported(node, st, strict) ==
    walk_calculated(node, st, range_calc_fxn(node, st[1], st[2], strict))
\* the loop body with lines 322-323 hoisted above the test of line 318
walk_node_entries_first(node, rd, hp, strict) ==
    IF inprange_ok(node, rd) /\ op_ok(node)
    THEN walk_supported(node, fresh_outputs(node.output, 1, <<rd, hp>>), strict)
    ELSE WalkResult(TRUE, FALSE, fresh_outputs(node.output, 1, <<rd, hp>>)[1],
                    fresh_outputs(node.output, 1, <<rd, hp>>)[2], <<>>)
\* the body of  for node in model.graph.node  (lines 315-332)
walk_node(node, rd, hp, strict) ==
    IF inprange_ok(node, rd) /\ op_ok(node)
    THEN walk_supported(node, fresh_outputs(node.output, 1, <<rd, hp>>), strict)
    ELSE WalkResult(TRUE, FALSE, rd, hp, <<>>)

CurNode == NodePool[graph[i_node]]

WalkNode ==
    /\ pc = "walk"
    /\ i_node <= Len(graph)
    /\ \E strict \in BOOLEAN :
          \E r \in {walk_node(CurNode, range_dict, heap, strict)} :
              /\ range_dict' = r.range_dict
              /\ heap' = r.heap
              /\ evals' = r.evals
              /\ pc' = (IF r.err THEN "aborted" ELSE pc)
              /\ abort_msg' = (IF r.err THEN "range calculation raised" ELSE abort_msg)
              /\ warnings' = (IF r.skipped
                              THEN Append(warnings,
                                     [node |-> i_node, name |-> CurNode.name,
                                      inprange_ok |-> inprange_ok(CurNode, range_dict),
                                      op_type |-> CurNode.op_type, op_ok |-> op_ok(CurNode)])
                              ELSE warnings)
    /\ i_node' = i_node + 1
    /\ UNCHANGED <<graph, ginputs, irange, range_min, range_max, stuck_chans, i_inp, ret,
                   fin, fout>>

\* ------------------------------------------------------------ report assembly
\* key_filter in k  read as  k.startswith(key_filter)
key_filtered_prefix(d, key_filter) ==
    IF key_filter # <<>>
    THEN [n \in {m \in DOMAIN d : SubSeq(Chars(m), 1, Len(key_filter)) = key_filter} |-> d[n]]
    ELSE d
key_filtered(d, key_filter) ==
    IF key_filter # <<>>
    THEN [n \in {m \in DOMAIN d : Contains(key_filter, Chars(m))} |-> d[n]]
    ELSE d
\* only leave channels that are stuck at zero  (lines 353-361)
zerostuck(d) ==
    [t \in {n \in DOMAIN d : {x \in d[n] : x[2] = 0} # {}} |->
        {x[1] : x \in {y \in d[t] : y[2] = 0}}]
\* the mode test of line 335 without its second alternative
report_base_zero_only(report_mode, strip, rd, hp, stuck) ==
    IF report_mode = REPORT_MODE_ZEROSTUCKCHANNEL THEN stuck
    ELSE IF strip THEN [n \in {m \in DOMAIN rd : ~hp[rd[m]].is_initializer} |-> rd[n]]
    ELSE rd
\* the table the report is taken from  (lines 335-341)
report_base(report_mode, strip, rd, hp, stuck) ==
    IF report_mode \in {REPORT_MODE_ZEROSTUCKCHANNEL, REPORT_MODE_STUCKCHANNEL} THEN stuck
    ELSE IF strip THEN [n \in {m \in DOMAIN rd : ~hp[rd[m]].is_initializer} |-> rd[n]]
    ELSE rd
\* lines 334-361: the structured report (prettyprint is false)
assemble_report(report_mode, key_filter, strip, rd, hp, stuck) ==
    LET filtered == key_filtered(key_filtered(report_base(report_mode, strip, rd, hp, stuck),
                                              key_filter), key_filter)
    IN  IF report_mode = REPORT_MODE_ZEROSTUCKCHANNEL THEN zerostuck(filtered) ELSE filtered

Report ==
    /\ pc = "walk"
    /\ i_node > Len(graph)
    /\ \E report_mode \in report_modes, key_filter \in KeyFilters, strip \in BOOLEAN :
          ret' = [report_mode |-> report_mode, key_filter |-> key_filter, strip |-> strip,
                  report |-> assemble_report(report_mode, key_filter, strip,
                                             range_dict, heap, stuck_chans)]
    /\ pc' = "done"
    /\ UNCHANGED <<graph, ginputs, irange, range_min, range_max, range_dict, heap,
                   stuck_chans, i_inp, i_node, abort_msg, warnings, evals, fin, fout>>

Next == SeedInput \/ SeedInitializers \/ WalkNode \/ Report

Spec == Init /\ [][Next]_vars

\* ------------------------------------------------------------ calc_matmul_range, called directly
\* matrices of the given shape with entries in -MaxVal..MaxVal
Matrices(r, c) == {Arr(m) : m \in [1..r -> [1..c -> {D(v) : v \in (0 - MaxVal)..MaxVal}]]}
\* the ranges (min, max) of that shape with min <= max elementwise
Ranges(r, c) ==
    {Pair(p[1], p[2]) : p \in {q \in Matrices(r, c) \X Matrices(r, c) : AllLe(q[1], q[2])}}

InitMatMul ==
    /\ graph = <<>>
    /\ ginputs = <<>>
    /\ irange = IRange("empty", NoneV, NoneV)
    /\ range_min = NoneV
    /\ range_max = NoneV
    /\ range_dict = EmptyDict
    /\ heap = <<>>
    /\ stuck_chans = EmptyDict
    /\ i_inp = 1
    /\ i_node = 1
    /\ pc = "matmul"
    /\ abort_msg = ""
    /\ warnings = <<>>
    /\ evals = <<>>
    /\ ret = NoReturn
    /\ fin \in {[A |-> a, B |-> b] : a \in Ranges(1, 2), b \in Ranges(2, 1)}
    /\ fout = NoneV

ApplyMatMul ==
    /\ pc = "matmul"
    /\ fout' = calc_matmul_range(fin.A, fin.B)
    /\ pc' = "applied"
    /\ UNCHANGED <<graph, ginputs, irange, range_min, range_max, range_dict, heap,
                   stuck_chans, i_inp, i_node, abort_msg, warnings, evals, ret, fin>>

NextMatMul == ApplyMatMul

SpecMatMul == InitMatMul /\ [][NextMatMul]_vars

\* ------------------------------------------------------------ properties
Names(seq) == {seq[i] : i \in 1..Len(seq)}
\* the nodes (positions in the graph) the walk has skipped so far
SkippedNodes == {warnings[i].node : i \in 1..Len(warnings)}
\* what produces tensor x: a graph input, an initializer, an output slot of a node
Producers(x) ==
    {<<"input", i>> : i \in {j \in 1..Len(ginputs) : ginputs[j] = x}}
      \cup (IF get_initializer(x).k # "none" THEN {<<"initializer", 0>>} ELSE {})
      \cup {<<"node", n>> : n \in {m \in 1..Len(graph) : x \in Names(NodePool[graph[m]].output)}}
SingleProducer ==
    \A x \in get_all_tensor_names(graph, ginputs) : Cardinality(Producers(x)) <= 1
\* node n of the graph takes an output of node m as a dynamic input
Consumes(n, m) ==
    \E x \in Names(NodePool[graph[m]].output) :
        is_dyn_input(x) /\ x \in Names(NodePool[graph[n]].input)
\* the node at the walk's position has an unsupported operator or a dynamic input
\* without a record
MustSkip ==
    \/ CurNode.op_type \notin optype_to_range_calc
    \/ \E i \in 1..Len(CurNode.input) :
          /\ CurNode.input[i] # ""
          /\ get_initializer(CurNode.input[i]).k = "none"
          /\ CurNode.input[i] \notin DOMAIN range_dict

C1_SkipStep ==
    (pc = "walk" /\ i_node <= Len(graph) /\ MustSkip)
      => /\ range_dict' = range_dict
         /\ heap' = heap
         /\ Len(warnings') = Len(warnings) + 1
         /\ warnings'[Len(warnings')].node = i_node
         /\ i_node' = i_node + 1
         /\ pc' = "walk"
C1_SkipState ==
    /\ (pc = "aborted" /\ i_node > 1) => (i_node - 1) \notin SkippedNodes
    /\ \A m \in SkippedNodes : Names(NodePool[graph[m]].output) \cap DOMAIN range_dict
                                 \subseteq UNION {Names(NodePool[graph[n]].output) :
                                                    n \in (1..(i_node - 1)) \ SkippedNodes}
                                             \cup Names(ginputs) \cup Names(InitNames)
    /\ SingleProducer =>
          \A n \in 1..(i_node - 1) :
              (op_ok(NodePool[graph[n]]) /\ \E m \in SkippedNodes : Consumes(n, m))
                 => n \in SkippedNodes
\* C1: a node with an unsupported operator, or with a dynamic input that has no
\* record when the node is visited, is skipped: the step adds nothing to the range
\* table, issues the warning, moves on to the next node and does not abort (an
\* abort of the walk is never the step of a skipped node); an output of a skipped
\* node has a record only if something else produced it; and where each tensor has
\* one producer, a supported node consuming an output of a skipped node is skipped.
C1_SkippedNodes == [][C1_SkipStep]_vars /\ []C1_SkipState
\* a run completed with a report after skipping an unsupported node and then a
\* supported node that consumes its output
C1_Witness ==
    /\ pc = "done"
    /\ SingleProducer
    /\ Len(graph) = 2
    /\ Len(warnings) = 2
    /\ ~warnings[1].op_ok
    /\ warnings[2].op_ok /\ ~warnings[2].inprange_ok
    /\ Consumes(2, 1)
    /\ ret.report_mode = REPORT_MODE_RANGE
    /\ DOMAIN ret.report # {}

\* C2: with irange "" every graph input, the second and later ones included, is
\* seeded with (min, max) of its own declared datatype, and the run aborts with
\* the missing-datatype assertion when an input has no datatype annotation.
C2_OwnDatatypeRange ==
    (irange.kind = "empty" /\ pc \in {"seed", "walk", "done", "aborted"}) =>
        \A i \in 1..(i_inp - 1) :
            IF get_tensor_datatype(ginputs[i]) = "NONE"
            THEN /\ pc = "aborted"
                 /\ abort_msg = "Could not infer irange, please specify"
                 /\ i = i_inp - 1
            ELSE /\ ginputs[i] \in DOMAIN range_dict
                 /\ RangeOf(range_dict, heap, ginputs[i])
                      = Pair(Sc(DtMin(get_tensor_datatype(ginputs[i]))),
                             Sc(DtMax(get_tensor_datatype(ginputs[i]))))

\* C3: in the "range" report every entry's range is a pair of arrays of the
\* tensor's declared shape, graph inputs included.
C3_ReportPromoted ==
    (pc = "done" /\ ret.report_mode = REPORT_MODE_RANGE) =>
        \A n \in DOMAIN ret.report :
            \A r \in {heap[ret.report[n]].range} :
                /\ r.k = "pair"
                /\ IsArr(r.min) /\ ShapeOf(r.min) = get_tensor_shape(n)
                /\ IsArr(r.max) /\ ShapeOf(r.max) = get_tensor_shape(n)

\* C4: every record flagged is_initializer has a degenerate range and, when the
\* constant is integral, int_range equal to the constant, scale 1 and bias 0.
C4_InitializerRecords ==
    \A n \in DOMAIN range_dict :
        \A ri \in {heap[range_dict[n]]} :
            ri.is_initializer =>
                /\ ri.range.k = "pair"
                /\ ri.range.min = ri.range.max
                /\ AllIntegral(ri.range.min) =>
                      /\ ri.int_range = Pair(ri.range.min, ri.range.min)
                      /\ ri.scale = Vec1(One)
                      /\ ri.bias = Vec1(Zero)

\* C5: the "range" report holds exactly the names of the final range table that
\* contain key_filter and, under strip_initializers_from_report, are not flagged
\* is_initializer; each maps to the record it has in the table; filtering the
\* report by key_filter again changes nothing.
C5_RangeReport ==
    (pc = "done" /\ ret.report_mode = REPORT_MODE_RANGE) =>
        /\ DOMAIN ret.report
             = {n \in DOMAIN range_dict :
                  /\ Contains(ret.key_filter, Chars(n))
                  /\ ret.strip => ~heap[range_dict[n]].is_initializer}
        /\ \A n \in DOMAIN ret.report : ret.report[n] = range_dict[n]
        /\ [n \in {m \in DOMAIN ret.report : Contains(ret.key_filter, Chars(m))} |->
               ret.report[n]] = ret.report
\* a report from which the key filter removed a dynamic tensor and the strip an
\* initializer whose name passes the filter, and which kept something
C5_Witness ==
    /\ pc = "done"
    /\ ret.report_mode = REPORT_MODE_RANGE
    /\ ret.key_filter = <<"1">>
    /\ ret.strip
    /\ "c1" \in DOMAIN range_dict /\ "c1" \notin DOMAIN ret.report
    /\ "inA" \in DOMAIN range_dict /\ "inA" \notin DOMAIN ret.report
    /\ "r1" \in DOMAIN ret.report

\* C6: the stuck-channel table stays empty throughout, and a run completed in
\* "stuck_channel" or "zerostuck_channel" mode returns an empty report.
C6_StuckReportEmpty ==
    /\ stuck_chans = EmptyDict
    /\ (pc = "done"
          /\ ret.report_mode \in {REPORT_MODE_STUCKCHANNEL, REPORT_MODE_ZEROSTUCKCHANNEL})
         => ret.report = EmptyDict
\* a stuck-channel report of a run whose range table has records that pass the filter
C6_Witness ==
    /\ pc = "done"
    /\ ret.report_mode = REPORT_MODE_STUCKCHANNEL
    /\ ret.key_filter = <<"i", "n">>
    /\ ~ret.strip
    /\ {"inA", "r1", "wM", "m1"} \subseteq DOMAIN range_dict
    /\ ret.report = EmptyDict

\* C7: for ranges A and B with min <= max, calc_matmul_range returns a range whose
\* midpoint is the product of the midpoints of A and B and which encloses a @ b
\* for each corner a of A and b of B.
C7_MatMulEnclosure ==
    pc = "applied" =>
        /\ fout.k = "pair"
        /\ Un("Half", Bin("Add", fout.min, fout.max))
             = MatMul(Un("Half", Bin("Add", fin.A.min, fin.A.max)),
                      Un("Half", Bin("Add", fin.B.min, fin.B.max)))
        /\ \A a \in {fin.A.min, fin.A.max} : \A b \in {fin.B.min, fin.B.max} :
              AllLe(fout.min, MatMul(a, b)) /\ AllLe(MatMul(a, b), fout.max)
\* a call with two proper intervals, midpoints in half-units, and an enclosure
\* attained at a corner
C7_Witness ==
    /\ pc = "applied"
    /\ fin.A.min # fin.A.max
    /\ fin.B.min # fin.B.max
    /\ ~AllIntegral(Un("Half", Bin("Add", fin.A.min, fin.A.max)))
    /\ fout.k = "pair"
    /\ fout.min # fout.max
    /\ MatMul(fin.A.max, fin.B.max) = fout.max

\* the walk has just processed (not skipped) the node before its position
LastProcessed == pc = "walk" /\ i_node > 1 /\ (i_node - 1) \notin SkippedNodes
LastNode == NodePool[graph[i_node - 1]]
MonotonicProcessed ==
    /\ LastProcessed
    /\ LastNode.op_type \in MonotonicOps
    /\ Len(dyn_inps_of(LastNode)) >= 1
\* elementwise equality under broadcasting
AllEq(a, b) == AllLe(a, b) /\ AllLe(b, a)
\* the integers of the interval [lo, hi], with its end points
Grid(lo, hi) ==
    {lo, hi} \cup
    {D(w) : w \in {v \in (0 - (DAbs(lo)[1] + DAbs(hi)[1]))..(DAbs(lo)[1] + DAbs(hi)[1]) :
                      DLe(lo, D(v)) /\ DLe(D(v), hi)}}
\* the arrays of the declared shape of x inside the range recorded for x
Points(x) ==
    {Arr(Tup([i \in 1..get_tensor_shape(x)[1] |-> Tup(m[i], get_tensor_shape(x)[2])],
             get_tensor_shape(x)[1])) :
       m \in UNION {
         {f \in [1..get_tensor_shape(x)[1] -> [1..get_tensor_shape(x)[2] -> G]] :
            \A i \in 1..get_tensor_shape(x)[1] : \A j \in 1..get_tensor_shape(x)[2] :
               /\ DLe(At(r.min, i, j), f[i][j])
               /\ DLe(f[i][j], At(r.max, i, j))}
         : r \in {RangeOf(range_dict, heap, x)},
           G \in {UNION {Grid(At(RangeOf(range_dict, heap, x).min, i, j),
                              At(RangeOf(range_dict, heap, x).max, i, j)) :
                           i \in 1..get_tensor_shape(x)[1],
                           j \in 1..get_tensor_shape(x)[2]}}}}
\* the input contexts that give each of the dynamic inputs dyn[i..] a value of its box
RECURSIVE BoxCtxs(_, _, _)
BoxCtxs(ctx, dyn, i) ==
    IF i > Len(dyn) THEN {ctx}
    ELSE UNION {BoxCtxs([ctx EXCEPT ![dyn[i]] = p], dyn, i + 1) : p \in Points(dyn[i])}
\* the values output o of the node takes over the input box
BoxOutputs(node, o) ==
    {execute_node(node, c, FALSE)[o] :
       c \in BoxCtxs(ctx_inputs(node, init_ctx(node)), dyn_inps_of(node), 1)}
\* the values output o of the node took at the evaluations made
EvalOutputs(node, o) == {execute_node(node, evals[c], FALSE)[o] : c \in 1..Len(evals)}
\* r is the elementwise minimum and maximum of the values O of the given shape
IsMinMax(r, O, shape) ==
    /\ r.k = "pair"
    /\ \A v \in O : AllLe(r.min, v) /\ AllLe(v, r.max)
    /\ \A i \in 1..shape[1] : \A j \in 1..shape[2] :
          /\ \E v \in O : At(v, i, j) = At(r.min, i, j)
          /\ \E v \in O : At(v, i, j) = At(r.max, i, j)
\* one evaluation was made for each choice of a bound per dynamic input
CornersEvaluated(dyn) ==
    /\ Len(evals) = Pow2(Len(dyn))
    /\ \A pick \in [1..Len(dyn) -> {"min", "max"}] :
          \E c \in 1..Len(evals) :
              \A i \in 1..Len(dyn) :
                  AllEq(evals[c][dyn[i]],
                        IF pick[i] = "min" THEN RangeOf(range_dict, heap, dyn[i]).min
                        ELSE RangeOf(range_dict, heap, dyn[i]).max)
CornerRange(node) ==
    /\ CornersEvaluated(dyn_inps_of(node))
    /\ \A o \in 1..Len(node.output) :
          /\ IsMinMax(RangeOf(range_dict, heap, node.output[o]), EvalOutputs(node, o),
                      get_tensor_shape(node.output[o]))
          /\ IsMinMax(RangeOf(range_dict, heap, node.output[o]), BoxOutputs(node, o),
                      get_tensor_shape(node.output[o]))
DistinctDynInputs(node) ==
    \A i, j \in 1..Len(dyn_inps_of(node)) :
        i # j => dyn_inps_of(node)[i] # dyn_inps_of(node)[j]

\* C8 as stated: after a monotonic-strategy node with k >= 1 dynamic inputs, one
\* evaluation was made per combination of a lower or upper bound of each dynamic
\* input, each output's range is the min and max of the evaluations, and it is
\* the min and max of the operator over the whole input box.
C8_CornersAreExtremes == MonotonicProcessed => CornerRange(LastNode)
\* C8: the same, for a node whose dynamic inputs are pairwise distinct tensors
\* (every operator modelled is monotonic in each input separately).
C8_DistinctCornersAreExtremes ==
    (MonotonicProcessed /\ DistinctDynInputs(LastNode)) => CornerRange(LastNode)
\* a node with two distinct dynamic inputs was processed at four different corners
C8_Witness ==
    /\ MonotonicProcessed
    /\ LastNode.op_type = "Mul"
    /\ Len(dyn_inps_of(LastNode)) = 2
    /\ DistinctDynInputs(LastNode)
    /\ Len(evals) = 4
    /\ \A c, d \in 1..4 : c # d => evals[c] # evals[d]
    /\ RangeOf(range_dict, heap, "s1").min # RangeOf(range_dict, heap, "s1").max

C9_FrameStep ==
    /\ DOMAIN range_dict \subseteq DOMAIN range_dict'
    /\ (pc = "walk" /\ i_node <= Len(graph) /\ i_node' = i_node + 1) =>
          \A n \in DOMAIN range_dict \ Names(CurNode.output) :
              heap'[range_dict'[n]] = heap[range_dict[n]]
\* C9: a step of the walk leaves the record of every name other than the outputs
\* of the node it processes as it was, also when the graph inputs share one
\* RangeInfo, and no step of the run removes a name from the range table.
C9_Frame == [][C9_FrameStep]_vars
\* a node was processed while two graph inputs shared the RangeInfo given as irange
C9_Witness ==
    /\ LastProcessed
    /\ irange.kind = "RangeInfo"
    /\ Len(ginputs) = 2
    /\ range_dict[ginputs[1]] = range_dict[ginputs[2]]
    /\ heap[range_dict[ginputs[1]]].range = Pair(irange.min, irange.max)
    /\ Names(LastNode.output) \subseteq DOMAIN range_dict
    /\ ginputs[1] \in Names(LastNode.input)

\* C10: when the ranges seeded for the graph inputs have min <= max, every record
\* of the range table has a range, with min <= max elementwise, after seeding and
\* after each node of the walk.
C10_MinLeMax ==
    (pc \in {"seed", "walk", "done"}
       /\ (irange.kind # "empty" => irange.min.k # "none" /\ AllLe(irange.min, irange.max)))
      => \A n \in DOMAIN range_dict :
            \A r \in {RangeOf(range_dict, heap, n)} :
                r.k = "pair" /\ AllLe(r.min, r.max)
\* records made by each strategy: initializer, corner enumeration, matmul bound
\* and datatype bounds
C10_Witness ==
    /\ pc = "walk"
    /\ i_node = 3
    /\ {"inA", "wM", "r1", "m1"} \subseteq DOMAIN range_dict
    /\ RangeOf(range_dict, heap, "m1").min # RangeOf(range_dict, heap, "m1").max
    /\ RangeOf(range_dict, heap, "r1").min # RangeOf(range_dict, heap, "r1").max

====
